---- MODULE Spec2Model ----
(***************************************************************************)
(* Model of the Adzuna job-search tool                                     *)
(* (src/components/agent/tools/adzuna.ts): the input schema, the           *)
(* credentials check, the request construction, the retry loop with its    *)
(* per-attempt timeout timer and exponential backoff, the error            *)
(* classification of the catch block and the provider-to-canonical         *)
(* mapping.                                                                *)
(*                                                                         *)
(* JavaScript runs one callback to completion, so every action is the code *)
(* that runs between two awaits.  The network, the timers and the thrown   *)
(* values are the environment.                                             *)
(*                                                                         *)
(* Conventions: an optional JavaScript value (possibly undefined) is a     *)
(* sequence of length 0 or 1; a string built by a template literal is kept *)
(* as the sequence of its pieces (literal parts and interpolated values),  *)
(* so the empty string is the empty sequence of pieces.                    *)
(***************************************************************************)
EXTENDS Integers, Sequences, FiniteSets, TLC

\* ------------------------------------------------------------------ bounds
\* Longest provider result list a response body carries.
MaxJobs == 2

\* ------------------------------------------------------- program constants
maxRetries == 3
timeout == 10000

\* The invocations of execute the model tracks, and those Spec starts.
Invocations == {1, 2}
Sequential == {1}

\* ------------------------------------------------------- optional values
None == <<>>
Some(v) == <<v>>
IsSome(o) == o # None

\* JavaScript truthiness of an optional string: undefined and "" are falsy.
TruthyStr(o) == o # None /\ o[1] # ""
\* JavaScript truthiness of an optional number: undefined and 0 are falsy.
TruthyNum(o) == o # None /\ o[1] # 0

\* Number.prototype.toString for the integers the model uses.
NumToString(n) == ToString(n)

\* ------------------------------------------------------------ input schema
\* The schema without its upper limit.
ValidResultsCountNoMax(n) == n >= 1

\* z.number().min(1).max(50) of resultsCount.
ValidResultsCount(n) == n >= 1 /\ n <= 50

\* The arguments a caller may hand to the tool, before validation.
QueryValues == {"ai engineer"}
LocationValues == {"", "Remote"}
CountValues == {0, 1, 20, 50, 51}
RawArgs ==
  [query : {None} \cup {Some(q) : q \in QueryValues},
   location : {None} \cup {Some(l) : l \in LocationValues},
   resultsCount : {None} \cup {Some(n) : n \in CountValues}]

\* inputSchema: query is a required string, location an optional string,
\* resultsCount a number in [1,50].
SchemaAccepts(raw) ==
  /\ IsSome(raw.query)
  /\ raw.resultsCount # None => ValidResultsCount(raw.resultsCount[1])

\* inputSchema's output: .default(20) fills a missing resultsCount.
SchemaParse(raw) ==
  [query |-> raw.query[1],
   location |-> raw.location,
   resultsCount |-> IF raw.resultsCount = None THEN Some(20) ELSE raw.resultsCount]

\* execute's parameter list: { query, location, resultsCount = 20 }.
ExecuteArgs(a) ==
  [query |-> a.query,
   location |-> a.location,
   resultsCount |-> IF a.resultsCount = None THEN 20 ELSE a.resultsCount[1]]

\* ------------------------------------------------------------ environment
\* process.env.ADZUNA_APP_ID / ADZUNA_APP_KEY: unset, empty or set.
EnvValues == {None, Some(""), Some("test-id")}
Environments == [ADZUNA_APP_ID : EnvValues, ADZUNA_APP_KEY : EnvValues]

\* The test with && in place of ||.
CredentialsBothMissing(e) ==
  ~TruthyStr(e.ADZUNA_APP_ID) /\ ~TruthyStr(e.ADZUNA_APP_KEY)

\* if (!appId || !apiKey)
CredentialsMissing(e) ==
  ~TruthyStr(e.ADZUNA_APP_ID) \/ ~TruthyStr(e.ADZUNA_APP_KEY)

\* The string URLSearchParams makes of an optional string value.
ParamString(o) == IF o = None THEN "undefined" ELSE o[1]

\* The parameters with where appended unconditionally.
BuildParamsAlwaysWhere(e, a) ==
  << <<"app_id", ParamString(e.ADZUNA_APP_ID)>>,
     <<"app_key", ParamString(e.ADZUNA_APP_KEY)>>,
     <<"results_per_page", NumToString(a.resultsCount)>>,
     <<"what", a.query>>,
     <<"where", IF a.location = None THEN "" ELSE a.location[1]>> >>

\* new URLSearchParams({...}) and the conditional params.append("where", ..).
BuildParams(e, a) ==
  LET base == << <<"app_id", ParamString(e.ADZUNA_APP_ID)>>,
                 <<"app_key", ParamString(e.ADZUNA_APP_KEY)>>,
                 <<"results_per_page", NumToString(a.resultsCount)>>,
                 <<"what", a.query>> >>
  IN IF TruthyStr(a.location)
       THEN Append(base, <<"where", a.location[1]>>)
       ELSE base

\* ------------------------------------------------------------ thrown values
\* A value a rejected promise or a throw statement can carry.  nullish: the
\* value is undefined or null; isError: value instanceof Error; name, code,
\* causeCode (value.cause?.code) and message are the properties the catch
\* block reads.
Thrown(nullish, isError, name, code, causeCode, message) ==
  [nullish |-> nullish, isError |-> isError, name |-> name, code |-> code,
   causeCode |-> causeCode, message |-> message]

\* What controller.abort() makes the pending fetch reject with.
AbortError ==
  Thrown(FALSE, TRUE, Some("AbortError"), None, None, <<"This operation was aborted">>)

\* What reading a property of undefined throws (data.results.length,
\* adzunaJob.description.toLowerCase()).
PropertyTypeError ==
  Thrown(FALSE, TRUE, Some("TypeError"), None, None,
         <<"Cannot read properties of undefined">>)

\* The values the network layer and the body parser may reject with.
ThrownValues ==
  { Thrown(TRUE, FALSE, None, None, None, <<>>),
    Thrown(FALSE, FALSE, None, None, None, <<>>),
    Thrown(FALSE, TRUE, Some("TypeError"), None, Some("ECONNRESET"), <<"fetch failed">>),
    Thrown(FALSE, TRUE, Some("TypeError"), None, Some("ECONNREFUSED"), <<"fetch failed">>),
    Thrown(FALSE, TRUE, Some("Error"), Some("ETIMEDOUT"), None, <<"connect ETIMEDOUT">>),
    Thrown(FALSE, TRUE, Some("TypeError"), None, Some("ENOTFOUND"), <<"fetch failed">>),
    Thrown(FALSE, TRUE, Some("Error"), Some("UND_ERR_SOCKET"), Some("ECONNRESET"),
           <<"other side closed">>),
    Thrown(FALSE, TRUE, Some("SyntaxError"), None, None, <<"Unexpected token < in JSON">>),
    Thrown(FALSE, TRUE, Some("Error"), None, None, <<>>) }

\* const errorCode = error.code || error.cause?.code;
ErrorCode(error) == IF TruthyStr(error.code) THEN error.code ELSE error.causeCode

\* errorName === 'AbortError'
IsAbort(error) == error.name = Some("AbortError")

\* Any error code taken as retryable.
IsNetworkErrorAnyCode(error) == ErrorCode(error) # None

\* errorCode === 'ETIMEDOUT' || errorCode === 'ECONNRESET' || errorCode === 'ECONNREFUSED'
RetryableCodes == {"ETIMEDOUT", "ECONNRESET", "ECONNREFUSED"}
IsNetworkError(error) ==
  ErrorCode(error) # None /\ ErrorCode(error)[1] \in RetryableCodes

\* The retry test off by one.
ShouldRetryInclusive(n) == n <= maxRetries

\* if (attempt < maxRetries)
ShouldRetry(n) == n < maxRetries

\* A fixed delay in place of the exponential one.
BackoffDelayConstant(n) == 1000

\* The exponent without its - 1.
BackoffDelayDoubled(n) == (2 ^ n) * 1000

\* Math.pow(2, attempt - 1) * 1000
BackoffDelay(n) == (2 ^ (n - 1)) * 1000

\* --------------------------------------------------------------- results
CredentialsMessage ==
  <<"Adzuna API credentials are not configured. Please add ",
    "ADZUNA_APP_ID", " and ", "ADZUNA_APP_KEY", " to your environment variables.">>

\* The message without the numeric status.
StatusMessageTextOnly(status, statusText) ==
  <<"Adzuna API returned error: ", statusText>>

\* `Adzuna API returned error: ${response.status} ${response.statusText}`
StatusMessage(status, statusText) ==
  <<"Adzuna API returned error: ", NumToString(status), " ", statusText>>

\* `Adzuna API request timed out after ${maxRetries} attempts`
TimeoutMessage ==
  <<"Adzuna API request timed out after ", NumToString(maxRetries), " attempts">>

\* The timeout message returned for a network error as well.
NetworkMessageAsTimeout(errorCode) ==
  <<"Adzuna API request timed out after ", NumToString(maxRetries), " attempts">>

\* `Network error connecting to Adzuna: ${errorCode}`
NetworkMessage(errorCode) ==
  <<"Network error connecting to Adzuna: ", errorCode>>

\* error instanceof Error ? error.message : "An unexpected error ..."
OtherMessage(error) ==
  IF error.isError THEN error.message
  ELSE <<"An unexpected error occurred while searching Adzuna">>

\* lastError instanceof Error ? lastError.message : "Failed to fetch ..."
FallbackMessage(lastErr) ==
  IF lastErr # None /\ lastErr[1].isError THEN lastErr[1].message
  ELSE <<"Failed to fetch jobs from Adzuna after multiple retries">>

ErrorResult(message) == [action |-> "error", error |-> message, jobs |-> <<>>]

\* response.ok
ResponseOk(status) == status >= 200 /\ status <= 299

Statuses == {200, 429, 500}
StatusText(status) ==
  CASE status = 200 -> "OK"
    [] status = 429 -> "Too Many Requests"
    [] status = 500 -> "Internal Server Error"
    [] OTHER -> ""

\* ------------------------------------------------- provider-to-canonical map
\* String.prototype.toLowerCase on the words descriptions are made of.
ToLower(w) ==
  CASE w = "Bachelor's" -> "bachelor's"
    [] w = "DEGREE" -> "degree"
    [] w = "Experienced" -> "experienced"
    [] OTHER -> w

\* The keywords a lower-case word contains as a substring.
Substrings(w) ==
  CASE w = "bachelor's" -> {"bachelor"}
    [] w = "degree" -> {"degree"}
    [] w = "experienced" -> {"experience"}
    [] OTHER -> {}

\* descLower.includes(key), the description being a sequence of words.
Includes(descLower, key) ==
  \E k \in DOMAIN descLower : key \in Substrings(descLower[k])

\* Number.prototype.toLocaleString() in the en-US locale: groups of three
\* digits separated by commas.
RECURSIVE toLocaleString(_)
toLocaleString(n) ==
  IF n < 1000 THEN ToString(n)
  ELSE LET r == n % 1000
           pad == IF r < 10 THEN "00" ELSE IF r < 100 THEN "0" ELSE ""
       IN toLocaleString(n \div 1000) \o "," \o pad \o ToString(r)

\* Lines 58-64: the salary string, undefined when salary_min is falsy.
FormatSalary(job) ==
  IF TruthyNum(job.salary_min) /\ TruthyNum(job.salary_max)
    THEN Some(<<"$", toLocaleString(job.salary_min[1]), " - $",
                toLocaleString(job.salary_max[1])>>)
  ELSE IF TruthyNum(job.salary_min)
    THEN Some(<<"$", toLocaleString(job.salary_min[1]), "+">>)
  ELSE None

\* Lines 47-56: the requirements heuristic.
Requirements(description) ==
  LET descLower == [k \in DOMAIN description |-> ToLower(description[k])]
  IN (IF Includes(descLower, "bachelor") \/ Includes(descLower, "degree")
        THEN <<"Bachelor's degree or equivalent experience">> ELSE <<>>)
     \o
     (IF Includes(descLower, "experience")
        THEN <<"Relevant professional experience">> ELSE <<>>)

\* adzunaJob.description.toLowerCase() throws when description is missing.
MapThrows(job) == job.description = None

\* mapAdzunaJobToJob; id stands for the fresh uuidv4() value, discoveredAt
\* (the wall clock at mapping time) is left out.
mapAdzunaJobToJob(job, id) ==
  [id |-> id,
   title |-> job.title,
   company |-> job.company,
   location |-> job.location,
   salary |-> FormatSalary(job),
   description |-> job.description[1],
   requirements |-> Requirements(job.description[1]),
   url |-> job.redirect_url,
   source |-> "adzuna"]

\* The provider result entries response bodies are made of.
ProviderJobs ==
  { [title |-> "AI Engineer", company |-> "Acme", location |-> "Remote",
     description |-> Some(<<"Bachelor's", "DEGREE", "Experienced">>),
     salary_min |-> Some(80000), salary_max |-> Some(120000),
     redirect_url |-> "https://adzuna.example/1"],
    [title |-> "ML Engineer", company |-> "Initech", location |-> "Austin",
     description |-> Some(<<"python">>),
     salary_min |-> Some(80000), salary_max |-> None,
     redirect_url |-> "https://adzuna.example/2"],
    [title |-> "Data Engineer", company |-> "Globex", location |-> "Boston",
     description |-> None,
     salary_min |-> None, salary_max |-> None,
     redirect_url |-> "https://adzuna.example/3"],
    [title |-> "Intern", company |-> "Hooli", location |-> "Denver",
     description |-> Some(<<"python">>),
     salary_min |-> Some(0), salary_max |-> Some(50000),
     redirect_url |-> "https://adzuna.example/4"] }

\* The JSON values response.json() may resolve to: an object with a results
\* array of at most MaxJobs entries, or an object without one.
Bodies ==
  {[results |-> None]} \cup
  {[results |-> Some(js)] :
     js \in UNION {[1..n -> ProviderJobs] : n \in 0..MaxJobs}}

\* data.results.length / data.results.map(mapAdzunaJobToJob) throws.
BodyThrows(data) ==
  \/ data.results = None
  \/ \E k \in DOMAIN data.results[1] : MapThrows(data.results[1][k])

\* The mapped entries in reverse order.
MapJobsReversed(results, i) ==
  [k \in DOMAIN results |->
     mapAdzunaJobToJob(results[Len(results) + 1 - k], <<i, k>>)]

\* data.results.map(mapAdzunaJobToJob)
MapJobs(results, i) ==
  [k \in DOMAIN results |-> mapAdzunaJobToJob(results[k], <<i, k>>)]

\* `Found ${jobs.length} jobs matching "${query}"${location ? ` in ${location}` : ""}`
FoundMessage(jobs, query, location) ==
  <<"Found ", NumToString(Len(jobs)), " jobs matching \"", query, "\"">>
  \o (IF TruthyStr(location) THEN <<" in ", location[1]>> ELSE <<"">>)

\* Lines 185-192: the success result.
DisplayResult(jobs, query, location) ==
  [action |-> "display",
   jobs |-> jobs,
   count |-> Len(jobs),
   query |-> query,
   location |-> IF TruthyStr(location) THEN location[1] ELSE "all locations",
   message |-> FoundMessage(jobs, query, location)]

\* ------------------------------------------------------------------ state
VARIABLES
  env,        \* process.env, read-only
  pc,         \* where each invocation stands: "idle", "rejected" (the schema
              \* refused the arguments), "fetching" (await fetch), "reading"
              \* (await response.json()), "backoff" (await the retry delay),
              \* "done" (returned), "threw" (the promise of execute rejected)
  supplied,   \* the arguments the caller supplied, before validation
  args,       \* query, location, resultsCount of the invocation
  params,     \* the query parameters of url
  attempt,    \* the loop variable
  timers,     \* pending setTimeout(() => controller.abort(), timeout) timers,
              \* each named by the attempt that armed it
  aborted,    \* the attempts whose controller was aborted
  sleep,      \* the pending backoff timer's delay
  lastError,  \* lastError
  inflight,   \* the attempt whose request is in flight
  result,     \* the value execute resolved to
  rejection,  \* the value execute rejected with
  requests,   \* history: the requests issued
  delays,     \* history: the backoff delays waited
  outcomes    \* history: how each attempt ended

vars == <<env, pc, supplied, args, params, attempt, timers, aborted, sleep, lastError,
          inflight, result, rejection, requests, delays, outcomes>>

NoArgs == [query |-> "", location |-> None, resultsCount |-> 0]

Init ==
  /\ env \in Environments
  /\ pc = [i \in Invocations |-> "idle"]
  /\ supplied = [i \in Invocations |-> None]
  /\ args = [i \in Invocations |-> NoArgs]
  /\ params = [i \in Invocations |-> <<>>]
  /\ attempt = [i \in Invocations |-> 0]
  /\ timers = [i \in Invocations |-> {}]
  /\ aborted = [i \in Invocations |-> {}]
  /\ sleep = [i \in Invocations |-> None]
  /\ lastError = [i \in Invocations |-> None]
  /\ inflight = [i \in Invocations |-> None]
  /\ result = [i \in Invocations |-> None]
  /\ rejection = [i \in Invocations |-> None]
  /\ requests = [i \in Invocations |-> <<>>]
  /\ delays = [i \in Invocations |-> <<>>]
  /\ outcomes = [i \in Invocations |-> <<>>]

\* How an attempt ended: kind is "abort" (the timeout timer fired),
\* "fetchRejected", "status" (a response that is not ok), "bodyRejected",
\* "bodyInvalid" (the body parsed but its processing threw) or "success".
\* body is the parsed response body of a "bodyInvalid" or "success" outcome.
Outcome(n, kind, error, status, body) ==
  [attempt |-> n, kind |-> kind, error |-> error, status |-> status, body |-> body]

\* clearTimeout(timeoutId) after fetch resolved (line 167).
ClearOnResponse(ts, id) == ts \ {id}
\* The inner catch without its clearTimeout.
ClearOnErrorMissing(ts, id) == ts

\* clearTimeout(timeoutId) of the inner catch (line 194).
ClearOnError(ts, id) == ts \ {id}

\* return <value>
Return(i, value) ==
  /\ pc' = [pc EXCEPT ![i] = "done"]
  /\ result' = [result EXCEPT ![i] = Some(value)]
  /\ UNCHANGED <<rejection, sleep>>

\* The loop body up to await fetch(...): a new controller, its timeout timer
\* and the request (lines 149-164).
Begin(i, n, p) ==
  /\ attempt' = [attempt EXCEPT ![i] = n]
  /\ timers' = [timers EXCEPT ![i] = @ \cup {n}]
  /\ inflight' = [inflight EXCEPT ![i] = Some(n)]
  /\ requests' = [requests EXCEPT ![i] = Append(@, [attempt |-> n, params |-> p])]
  /\ pc' = [pc EXCEPT ![i] = "fetching"]

\* The outer catch block (lines 197-249) for the value caught on attempt n.
Catch(i, error) ==
  /\ lastError' = [lastError EXCEPT ![i] = Some(error)]
  /\ IF error.nullish
       THEN \* error.code of undefined or null throws inside the catch block
            /\ pc' = [pc EXCEPT ![i] = "threw"]
            /\ rejection' = [rejection EXCEPT ![i] = Some(PropertyTypeError)]
            /\ UNCHANGED <<result, sleep>>
     ELSE IF (IsAbort(error) \/ IsNetworkError(error)) /\ ShouldRetry(attempt[i])
       THEN \* await new Promise(resolve => setTimeout(resolve, delay)); continue
            /\ pc' = [pc EXCEPT ![i] = "backoff"]
            /\ sleep' = [sleep EXCEPT ![i] = Some(BackoffDelay(attempt[i]))]
            /\ UNCHANGED <<result, rejection>>
     ELSE IF IsAbort(error)
       THEN Return(i, ErrorResult(TimeoutMessage))
     ELSE IF IsNetworkError(error)
       THEN Return(i, ErrorResult(NetworkMessage(ErrorCode(error)[1])))
     ELSE Return(i, ErrorResult(OtherMessage(error)))

\* The inner catch (clearTimeout, rethrow) followed by the outer one.
Fail(i, kind, error, body) ==
  /\ timers' = [timers EXCEPT ![i] = ClearOnError(@, attempt[i])]
  /\ inflight' = [inflight EXCEPT ![i] = None]
  /\ outcomes' = [outcomes EXCEPT ![i] = Append(@, Outcome(attempt[i], kind, Some(error), None, body))]
  /\ Catch(i, error)
  /\ UNCHANGED <<env, supplied, args, params, attempt, requests, delays>>

\* ---------------------------------------------------------------- actions
\* The schema refuses the arguments: execute is not called.
Reject(i) ==
  /\ pc[i] = "idle"
  /\ \E raw \in RawArgs :
       /\ ~SchemaAccepts(raw)
       /\ supplied' = [supplied EXCEPT ![i] = Some(raw)]
  /\ pc' = [pc EXCEPT ![i] = "rejected"]
  /\ UNCHANGED <<env, args, params, attempt, timers, aborted, sleep, lastError,
                 inflight, result, rejection, requests, delays, outcomes>>

\* execute is called with validated arguments and runs to its first await
\* (lines 109-164) or to the credentials return (lines 116-123).
Execute(i) ==
  /\ pc[i] = "idle"
  /\ \E raw \in RawArgs :
       /\ SchemaAccepts(raw)
       /\ supplied' = [supplied EXCEPT ![i] = Some(raw)]
       /\ LET a == ExecuteArgs(SchemaParse(raw)) IN
            /\ args' = [args EXCEPT ![i] = a]
            /\ IF CredentialsMissing(env)
                 THEN /\ Return(i, ErrorResult(CredentialsMessage))
                      /\ UNCHANGED <<params, attempt, timers, inflight, requests>>
                 ELSE /\ params' = [params EXCEPT ![i] = BuildParams(env, a)]
                      /\ Begin(i, 1, BuildParams(env, a))
                      /\ UNCHANGED <<result, rejection, sleep>>
  /\ UNCHANGED <<env, aborted, lastError, delays, outcomes>>

\* fetch resolves with a response (lines 166-178): the timer is cleared, a
\* status that is not ok returns, otherwise response.json() is awaited.
FetchResolves(i) ==
  /\ pc[i] = "fetching"
  /\ \E status \in Statuses :
       /\ timers' = [timers EXCEPT ![i] = ClearOnResponse(@, attempt[i])]
       /\ IF ~ResponseOk(status)
            THEN /\ Return(i, ErrorResult(StatusMessage(status, StatusText(status))))
                 /\ inflight' = [inflight EXCEPT ![i] = None]
                 /\ outcomes' = [outcomes EXCEPT ![i] =
                        Append(@, Outcome(attempt[i], "status", None, Some(status), None))]
            ELSE /\ pc' = [pc EXCEPT ![i] = "reading"]
                 /\ UNCHANGED <<result, rejection, sleep, inflight, outcomes>>
  /\ UNCHANGED <<env, supplied, args, params, attempt, aborted, lastError, requests, delays>>

\* fetch rejects with something other than the abort of its own timer.
FetchRejects(i) ==
  /\ pc[i] = "fetching"
  /\ \E error \in ThrownValues : Fail(i, "fetchRejected", error, None)
  /\ UNCHANGED aborted

\* The timer's callback aborting a controller held in a variable that the
\* invocations share: the request of any invocation may be the one aborted.
TimeoutFiresShared(i) ==
  \E t \in timers[i] : \E v \in Invocations :
    /\ inflight[v] # None
    /\ aborted' = [aborted EXCEPT ![v] = @ \cup {attempt[v]}]
    /\ outcomes' = [outcomes EXCEPT ![v] =
           Append(@, Outcome(attempt[v], "abort", Some(AbortError), None, None))]
    /\ timers' = [j \in Invocations |->
           IF j = v
             THEN ClearOnError(timers[j] \ (IF j = i THEN {t} ELSE {}), attempt[v])
             ELSE IF j = i THEN timers[j] \ {t} ELSE timers[j]]
    /\ inflight' = [inflight EXCEPT ![v] = None]
    /\ Catch(v, AbortError)
    /\ UNCHANGED <<env, supplied, args, params, attempt, requests, delays>>

\* A timeout timer fires: controller.abort().  The request of that attempt,
\* when still awaited, rejects with an AbortError.
TimeoutFires(i) ==
  \E t \in timers[i] :
    /\ aborted' = [aborted EXCEPT ![i] = @ \cup {t}]
    /\ IF inflight[i] = Some(t)
         THEN /\ outcomes' = [outcomes EXCEPT ![i] =
                     Append(@, Outcome(attempt[i], "abort", Some(AbortError), None, None))]
              /\ timers' = [timers EXCEPT ![i] = ClearOnError(@ \ {t}, attempt[i])]
              /\ inflight' = [inflight EXCEPT ![i] = None]
              /\ Catch(i, AbortError)
         ELSE /\ timers' = [timers EXCEPT ![i] = @ \ {t}]
              /\ UNCHANGED <<pc, sleep, lastError, inflight, result, rejection, outcomes>>
    /\ UNCHANGED <<env, supplied, args, params, attempt, requests, delays>>

\* response.json() resolves (lines 178-192): the jobs are mapped and
\* returned, or reading data.results / a job's description throws.
BodyResolves(i) ==
  /\ pc[i] = "reading"
  /\ \E data \in Bodies :
       IF BodyThrows(data)
         THEN Fail(i, "bodyInvalid", PropertyTypeError, Some(data))
         ELSE /\ Return(i, DisplayResult(MapJobs(data.results[1], i),
                                         args[i].query, args[i].location))
              /\ inflight' = [inflight EXCEPT ![i] = None]
              /\ outcomes' = [outcomes EXCEPT ![i] =
                     Append(@, Outcome(attempt[i], "success", None, Some(200), Some(data)))]
              /\ UNCHANGED <<env, supplied, args, params, attempt, timers, lastError,
                             requests, delays>>
  /\ UNCHANGED aborted

\* response.json() rejects: a body that is no JSON, a connection lost while
\* the body streams.
BodyRejects(i) ==
  /\ pc[i] = "reading"
  /\ \E error \in ThrownValues : Fail(i, "bodyRejected", error, None)
  /\ UNCHANGED aborted

\* The backoff timer fires: continue, attempt++, and the loop condition
\* (line 149); the code after the loop (lines 252-258) when it is false.
BackoffFires(i) ==
  /\ pc[i] = "backoff"
  /\ sleep[i] # None
  /\ delays' = [delays EXCEPT ![i] = Append(@, sleep[i][1])]
  /\ IF attempt[i] + 1 <= maxRetries
       THEN /\ Begin(i, attempt[i] + 1, params[i])
            /\ sleep' = [sleep EXCEPT ![i] = None]
            /\ UNCHANGED <<result, rejection>>
       ELSE /\ attempt' = [attempt EXCEPT ![i] = @ + 1]
            /\ pc' = [pc EXCEPT ![i] = "done"]
            /\ result' = [result EXCEPT ![i] = Some(ErrorResult(FallbackMessage(lastError[i])))]
            /\ sleep' = [sleep EXCEPT ![i] = None]
            /\ UNCHANGED <<rejection, timers, inflight, requests>>
  /\ UNCHANGED <<env, supplied, args, params, aborted, lastError, outcomes>>

Step(i) ==
  \/ Reject(i)
  \/ Execute(i)
  \/ FetchResolves(i)
  \/ FetchRejects(i)
  \/ TimeoutFires(i)
  \/ BodyResolves(i)
  \/ BodyRejects(i)
  \/ BackoffFires(i)

Next == \E i \in Sequential : Step(i)

Spec == Init /\ [][Next]_vars

\* Two invocations of execute in flight at once, their callbacks interleaved
\* by the event loop, with both credentials configured.
ConcInit ==
  /\ Init
  /\ env = [ADZUNA_APP_ID |-> Some("test-id"), ADZUNA_APP_KEY |-> Some("test-id")]

\* What callers and the provider do in the concurrent runs: one in-range and
\* one out-of-range resultsCount, a timeout, a connection reset, a body that
\* is no JSON, and bodies of at most one entry.
ConcErrors ==
  { AbortError,
    Thrown(FALSE, TRUE, Some("TypeError"), None, Some("ECONNRESET"), <<"fetch failed">>),
    Thrown(FALSE, TRUE, Some("SyntaxError"), None, None, <<"Unexpected token < in JSON">>) }
ConcEnvironment ==
  \A i \in Invocations :
    /\ supplied[i] # None =>
         /\ supplied[i][1].query # None
         /\ supplied[i][1].location # Some("")
         /\ supplied[i][1].resultsCount \in {None, Some(51)}
    /\ \A k \in DOMAIN outcomes[i] :
         /\ outcomes[i][k].error # None => outcomes[i][k].error[1] \in ConcErrors
         /\ outcomes[i][k].body # None =>
              /\ outcomes[i][k].body[1].results # None
              /\ Len(outcomes[i][k].body[1].results[1]) <= 1
              /\ \A j \in DOMAIN outcomes[i][k].body[1].results[1] :
                   outcomes[i][k].body[1].results[1][j].title = "ML Engineer"

ConcNext ==
  \E i \in Invocations :
    \/ Reject(i) /\ ConcEnvironment'
    \/ Execute(i) /\ ConcEnvironment'
    \/ FetchResolves(i) /\ ConcEnvironment'
    \/ FetchRejects(i) /\ ConcEnvironment'
    \/ TimeoutFires(i) /\ ConcEnvironment'
    \/ BodyResolves(i) /\ ConcEnvironment'
    \/ BodyRejects(i) /\ ConcEnvironment'
    \/ BackoffFires(i) /\ ConcEnvironment'

ConcSpec == ConcInit /\ [][ConcNext]_vars

\* The event loop runs the callback of every setTimeout timer that stays
\* pending: an armed timeout timer (line 153) and a backoff timer (lines
\* 212, 231) eventually fire.  Nothing is assumed of the provider.
FairSpec ==
  /\ Spec
  /\ \A i \in Sequential : WF_vars(TimeoutFires(i)) /\ WF_vars(BackoffFires(i))

\* ================================================================ claims
Contains(pieces, piece) == \E k \in DOMAIN pieces : pieces[k] = piece
NonEmptyString(pieces) == \E k \in DOMAIN pieces : pieces[k] # ""
Kinds(i) == [k \in DOMAIN outcomes[i] |-> outcomes[i][k].kind]
RECURSIVE SumSeq(_)
SumSeq(q) == IF q = <<>> THEN 0 ELSE Head(q) + SumSeq(Tail(q))

\* C1: execute never throws: whatever the network does, an invocation that
\* ended resolved to a result tagged "error" or "display", and its promise
\* never rejects.
C1_NeverThrows ==
  \A i \in Invocations :
    /\ pc[i] # "threw"
    /\ rejection[i] = None
    /\ pc[i] = "done" =>
         result[i] # None /\ result[i][1].action \in {"error", "display"}

\* C2: every result satisfies the SearchResult invariant: an "error" result
\* has no jobs and a non-empty error string, a "display" result has
\* count = length(jobs).
C2_ResultInvariant ==
  \A i \in Invocations :
    result[i] # None =>
      LET r == result[i][1] IN
        /\ r.action = "error" => r.jobs = <<>> /\ NonEmptyString(r.error)
        /\ r.action = "display" => r.count = Len(r.jobs)

\* C3: when each of the 3 attempts ends in a timeout abort, the invocation
\* has returned an "error" result with no jobs whose message gives the number
\* of attempts made, and exactly 3 requests were issued.
C3_TimeoutExhaustion ==
  \A i \in Invocations :
    (Len(outcomes[i]) >= 3 /\ \A k \in 1..3 : outcomes[i][k].kind = "abort") =>
      /\ pc[i] = "done"
      /\ result[i] # None
      /\ result[i][1].action = "error"
      /\ result[i][1].jobs = <<>>
      /\ Contains(result[i][1].error, "3")
      /\ Contains(result[i][1].error, " attempts")
      /\ Len(requests[i]) = 3
      /\ inflight[i] = None
      /\ sleep[i] = None

C3_Witness ==
  \E i \in Invocations :
    /\ Kinds(i) = <<"abort", "abort", "abort">>
    /\ pc[i] = "done"

\* C4: after timeouts on attempts 1 and 2 the third request goes out once
\* 1000 ms and then 2000 ms (3000 ms in all) were waited, and when it
\* succeeds the result is "display" with one job per provider entry.
C4_SuccessOnThirdAttempt ==
  \A i \in Invocations :
    /\ (Len(requests[i]) = 3 /\ Len(outcomes[i]) >= 2
        /\ outcomes[i][1].kind = "abort" /\ outcomes[i][2].kind = "abort") =>
         delays[i] = <<1000, 2000>> /\ SumSeq(delays[i]) = 3000
    /\ Kinds(i) = <<"abort", "abort", "success">> =>
         /\ pc[i] = "done"
         /\ result[i] # None
         /\ result[i][1].action = "display"
         /\ LET entries == outcomes[i][3].body[1].results[1]
                jobs == result[i][1].jobs
            IN /\ Len(jobs) = Len(entries)
               /\ \A k \in DOMAIN entries :
                    jobs[k].title = entries[k].title /\ jobs[k].source = "adzuna"
         /\ SumSeq(delays[i]) = 3000

C4_Witness ==
  \E i \in Invocations :
    /\ Kinds(i) = <<"abort", "abort", "success">>
    /\ result[i] # None
    /\ Len(result[i][1].jobs) > 0

\* C5: a response whose status is not a success ends the invocation on the
\* attempt that received it: no request and no backoff wait follows it (one
\* request in all when it answers the first attempt), and the result is an
\* "error" with no jobs whose message holds the numeric status and the
\* status text.
C5_StatusIsFatal ==
  \A i \in Invocations :
    \A k \in DOMAIN outcomes[i] :
      outcomes[i][k].kind = "status" =>
        /\ k = Len(outcomes[i])
        /\ pc[i] = "done"
        /\ Len(requests[i]) = k
        /\ Len(delays[i]) = k - 1
        /\ sleep[i] = None
        /\ timers[i] = {}
        /\ k = 1 => Len(requests[i]) = 1 /\ delays[i] = <<>>
        /\ result[i] # None
        /\ result[i][1].action = "error"
        /\ result[i][1].jobs = <<>>
        /\ Contains(result[i][1].error, ToString(outcomes[i][k].status[1]))
        /\ Contains(result[i][1].error, StatusText(outcomes[i][k].status[1]))

C5_Witness ==
  \E i \in Invocations :
    /\ Kinds(i) = <<"status">>
    /\ outcomes[i][1].status = Some(429)
    /\ pc[i] = "done"

\* C6: when either credential is missing or empty, an invocation that was
\* executed has returned an "error" naming both configuration keys, with no
\* jobs, no request issued, no timer armed and no backoff wait.
C6_MissingCredentials ==
  \A i \in Invocations :
    (/\ pc[i] \notin {"idle", "rejected"}
     /\ \/ env.ADZUNA_APP_ID \in {None, Some("")}
        \/ env.ADZUNA_APP_KEY \in {None, Some("")}) =>
      /\ pc[i] = "done"
      /\ result[i] # None
      /\ result[i][1].action = "error"
      /\ result[i][1].jobs = <<>>
      /\ Contains(result[i][1].error, "ADZUNA_APP_ID")
      /\ Contains(result[i][1].error, "ADZUNA_APP_KEY")
      /\ requests[i] = <<>>
      /\ timers[i] = {}
      /\ inflight[i] = None
      /\ sleep[i] = None
      /\ delays[i] = <<>>
      /\ attempt[i] = 0

C6_Witness ==
  \E i \in Invocations :
    /\ pc[i] = "done"
    /\ env.ADZUNA_APP_ID = Some("test-id")
    /\ env.ADZUNA_APP_KEY = Some("")
    /\ supplied[i] # None
    /\ supplied[i][1].location = Some("Remote")

\* The error's code (its own or, when it has none, its nested cause's) is one
\* of the three retryable codes.
HasRetryableCode(error) ==
  LET code == IF error.code \notin {None, Some("")} THEN error.code ELSE error.causeCode
  IN code # None /\ code[1] \in {"ETIMEDOUT", "ECONNRESET", "ECONNREFUSED"}

\* C7: a network error with a retryable code (on the error or on its nested
\* cause) is retried like a timeout while attempt < 3, with the delay
\* 2^(attempt-1) * 1000, and on attempt 3 the invocation returns an "error"
\* whose message names the network condition and the number of attempts made.
C7_NetworkErrorPolicy ==
  \A i \in Invocations :
    (/\ outcomes[i] # <<>>
     /\ Len(outcomes[i]) = Len(requests[i])
     /\ outcomes[i][Len(outcomes[i])].kind \in {"fetchRejected", "bodyRejected"}
     /\ HasRetryableCode(outcomes[i][Len(outcomes[i])].error[1])) =>
      LET n == Len(outcomes[i])
          error == outcomes[i][n].error[1]
      IN /\ n < 3 => pc[i] = "backoff" /\ sleep[i] = Some((2 ^ (n - 1)) * 1000)
         /\ n = 3 =>
              /\ pc[i] = "done"
              /\ result[i] # None
              /\ result[i][1].action = "error"
              /\ result[i][1].jobs = <<>>
              /\ \E c \in {"ETIMEDOUT", "ECONNRESET", "ECONNREFUSED"} :
                   Contains(result[i][1].error, c)
              /\ Contains(result[i][1].error, "3")

\* C8: while the response of an attempt has not completed (the request was
\* issued and the body is not yet read and parsed) the timeout timer of that
\* attempt is armed.
C8_TimerCoversResponse ==
  \A i \in Invocations :
    pc[i] \in {"fetching", "reading"} => attempt[i] \in timers[i]

\* C9: at most one timeout timer is pending, it belongs to the current
\* attempt and only while its fetch is awaited: none is pending once the
\* attempt ended (returned, threw, backoff wait), and a controller is only
\* ever aborted for an attempt that ended in the timeout.
C9_TimerReleased ==
  \A i \in Invocations :
    /\ Cardinality(timers[i]) <= 1
    /\ timers[i] \subseteq {attempt[i]}
    /\ timers[i] # {} => pc[i] = "fetching" /\ inflight[i] = Some(attempt[i])
    /\ pc[i] \in {"done", "threw", "backoff"} => timers[i] = {}
    /\ \A t \in aborted[i] :
         t \in DOMAIN outcomes[i] /\ outcomes[i][t].kind = "abort"

C9_Witness ==
  \E i \in Invocations :
    /\ Kinds(i) = <<"fetchRejected", "abort">>
    /\ pc[i] = "backoff"
    /\ timers[i] = {}
    /\ aborted[i] = {2}

\* C10: no request carries a results_per_page outside [1,50]; a resultsCount
\* outside [1,50] is refused before any request is sent.
C10_ResultsPerPageInRange ==
  \A i \in Invocations :
    /\ \A k \in DOMAIN requests[i] :
         \A j \in DOMAIN requests[i][k].params :
           requests[i][k].params[j][1] = "results_per_page" =>
             requests[i][k].params[j][2] \in {ToString(n) : n \in 1..50}
    /\ (/\ supplied[i] # None
        /\ supplied[i][1].resultsCount # None
        /\ \/ supplied[i][1].resultsCount[1] < 1
           \/ supplied[i][1].resultsCount[1] > 50) =>
         pc[i] = "rejected" /\ requests[i] = <<>>

C10_Witness ==
  \E i \in Invocations :
    /\ pc[i] = "rejected"
    /\ supplied[i] # None
    /\ supplied[i][1].query # None
    /\ supplied[i][1].resultsCount = Some(51)

\* The last attempt has ended and nothing was started since.
AttemptEnded(i) == outcomes[i] # <<>> /\ Len(outcomes[i]) = Len(requests[i])
LastOutcome(i) == outcomes[i][Len(outcomes[i])]

\* An outcome that is a timeout abort or an error carrying a retryable code.
Transient(o) ==
  \/ o.kind = "abort"
  \/ o.kind \in {"fetchRejected", "bodyRejected"}
     /\ ~o.error[1].nullish
     /\ HasRetryableCode(o.error[1])

\* C12: after a transient failure on attempt n < 3 the invocation waits
\* 2^(n-1) * 1000 ms with no request in flight, and attempt n+1 starts only
\* when that wait is over: the k-th wait of an invocation lasted
\* 2^(k-1) * 1000 ms and every request after the first follows its wait.
C12_BackoffThenNextAttempt ==
  \A i \in Invocations :
    /\ (AttemptEnded(i) /\ Transient(LastOutcome(i)) /\ Len(outcomes[i]) < 3) =>
         /\ pc[i] = "backoff"
         /\ sleep[i] = Some((2 ^ (Len(outcomes[i]) - 1)) * 1000)
    /\ pc[i] = "backoff" =>
         /\ AttemptEnded(i)
         /\ inflight[i] = None
         /\ Len(requests[i]) = attempt[i]
         /\ Len(delays[i]) = attempt[i] - 1
    /\ \A k \in DOMAIN delays[i] : delays[i][k] = (2 ^ (k - 1)) * 1000
    /\ requests[i] # <<>> => Len(requests[i]) = Len(delays[i]) + 1
    /\ sleep[i] # None => pc[i] = "backoff"

C12_Witness ==
  \E i \in Invocations :
    /\ Kinds(i) = <<"fetchRejected", "abort">>
    /\ delays[i] = <<1000, 2000>>
    /\ Len(requests[i]) = 3
    /\ pc[i] = "fetching"

\* An outcome that is an error neither a timeout abort nor retryable.
OtherError(o) ==
  /\ o.kind \in {"fetchRejected", "bodyRejected", "bodyInvalid"}
  /\ o.error[1].nullish \/ ~HasRetryableCode(o.error[1])

\* C13: an error that is neither a timeout abort nor a retryable network
\* error ends the invocation on its attempt, with no retry and no backoff
\* wait, and the result is an "error" whose string is the error's message
\* (for a thrown value that is no Error and so has no message, the generic
\* string).
C13_OtherErrorIsFatal ==
  \A i \in Invocations :
    \A k \in DOMAIN outcomes[i] :
      OtherError(outcomes[i][k]) =>
        /\ k = Len(outcomes[i])
        /\ Len(requests[i]) = k
        /\ Len(delays[i]) = k - 1
        /\ sleep[i] = None
        /\ pc[i] = "done"
        /\ result[i] # None
        /\ result[i][1].action = "error"
        /\ result[i][1].jobs = <<>>
        /\ outcomes[i][k].error[1].isError =>
             result[i][1].error = outcomes[i][k].error[1].message

\* C14: at most 3 requests are issued, the k-th request is attempt k, at
\* most one request is unanswered at a time, and every attempt but the last
\* ended in a transient failure.
C14_AttemptDiscipline ==
  \A i \in Invocations :
    /\ Len(requests[i]) <= 3
    /\ attempt[i] \in 0..3
    /\ attempt[i] = Len(requests[i])
    /\ \A k \in DOMAIN requests[i] : requests[i][k].attempt = k
    /\ \A k \in DOMAIN outcomes[i] : outcomes[i][k].attempt = k
    /\ Len(requests[i]) - Len(outcomes[i]) \in {0, 1}
    /\ inflight[i] # None <=> Len(requests[i]) = Len(outcomes[i]) + 1
    /\ inflight[i] # None => inflight[i] = Some(attempt[i])
    /\ \A k \in DOMAIN requests[i] :
         k > 1 => Transient(outcomes[i][k - 1])

C14_Witness ==
  \E i \in Invocations :
    /\ Len(requests[i]) = 3
    /\ Kinds(i) = <<"bodyRejected", "abort">>
    /\ inflight[i] = Some(3)

\* C16: the return after the loop is never taken: the loop variable never
\* passes 3, a backoff wait only follows attempt 1 or 2, and every result of
\* an invocation that issued a request was returned by the attempt that
\* ended last, with no wait after it.
C16_FallbackUnreachable ==
  \A i \in Invocations :
    /\ attempt[i] <= 3
    /\ pc[i] = "backoff" => attempt[i] < 3
    /\ (pc[i] = "done" /\ requests[i] # <<>>) =>
         /\ AttemptEnded(i)
         /\ LastOutcome(i).attempt = attempt[i]
         /\ Len(delays[i]) = attempt[i] - 1
         /\ LastOutcome(i).kind \in {"abort", "fetchRejected", "bodyRejected"}
            /\ Transient(LastOutcome(i)) => attempt[i] = 3

C16_Witness ==
  \E i \in Invocations :
    /\ Kinds(i) = <<"abort", "abort", "fetchRejected">>
    /\ Transient(outcomes[i][3])
    /\ pc[i] = "done"
    /\ attempt[i] = 3

\* The retryable code of a transient network outcome.
OutcomeCode(o) ==
  IF o.error[1].code \notin {None, Some("")} THEN o.error[1].code[1]
  ELSE o.error[1].causeCode[1]

\* C17: timeouts and retryable network errors share the budget of 3
\* attempts: after three transient failures of any classes the invocation
\* has returned an "error" after exactly 3 requests whose message describes
\* the failure of attempt 3 (the timeout message for an abort, the network
\* message with its code otherwise); a fatal outcome on attempt n ends the
\* invocation after exactly n requests, the n-1 before it having ended in
\* transient failures.
C17_SharedAttemptBudget ==
  \A i \in Invocations :
    /\ (Len(outcomes[i]) = 3 /\ \A k \in 1..3 : Transient(outcomes[i][k])) =>
         /\ pc[i] = "done"
         /\ result[i] # None
         /\ result[i][1].action = "error"
         /\ result[i][1].jobs = <<>>
         /\ Len(requests[i]) = 3
         /\ IF outcomes[i][3].kind = "abort"
              THEN /\ Contains(result[i][1].error, "Adzuna API request timed out after ")
                   /\ ~Contains(result[i][1].error, "Network error connecting to Adzuna: ")
              ELSE /\ Contains(result[i][1].error, "Network error connecting to Adzuna: ")
                   /\ Contains(result[i][1].error, OutcomeCode(outcomes[i][3]))
                   /\ ~Contains(result[i][1].error, "Adzuna API request timed out after ")
    /\ (AttemptEnded(i)
        /\ (LastOutcome(i).kind = "status" \/ OtherError(LastOutcome(i)))) =>
         /\ pc[i] \in {"done", "threw"}
         /\ sleep[i] = None
         /\ Len(requests[i]) = Len(outcomes[i])
         /\ \A k \in 1..(Len(outcomes[i]) - 1) : Transient(outcomes[i][k])

C17_Witness ==
  \E i \in Invocations :
    /\ Kinds(i) = <<"abort", "fetchRejected", "fetchRejected">>
    /\ Transient(outcomes[i][3])
    /\ OutcomeCode(outcomes[i][2]) = "ECONNRESET"
    /\ OutcomeCode(outcomes[i][3]) = "ETIMEDOUT"
    /\ pc[i] = "done"

\* The values of the parameter key in a request.
ParamValues(request, key) ==
  {request.params[j][2] :
     j \in {j \in DOMAIN request.params : request.params[j][1] = key}}

\* C18: a request carries where exactly when a non-empty location was
\* supplied, its value is then that location and never the empty string; a
\* "display" result echoes the supplied location, or "all locations" exactly
\* when where was omitted; the query is sent unmodified as what and echoed
\* unmodified.
C18_LocationAndQuery ==
  \A i \in Invocations :
    supplied[i] # None =>
      LET loc == supplied[i][1].location
          given == loc # None /\ loc[1] # ""
      IN /\ \A k \in DOMAIN requests[i] :
              /\ ParamValues(requests[i][k], "where") =
                   (IF given THEN {loc[1]} ELSE {})
              /\ "" \notin ParamValues(requests[i][k], "where")
              /\ ParamValues(requests[i][k], "what") = {supplied[i][1].query[1]}
         /\ (result[i] # None /\ result[i][1].action = "display") =>
              /\ result[i][1].query = supplied[i][1].query[1]
              /\ result[i][1].location = (IF given THEN loc[1] ELSE "all locations")
              /\ result[i][1].location = "all locations" <=>
                   \A k \in DOMAIN requests[i] :
                     ParamValues(requests[i][k], "where") = {}

C18_Witness ==
  \E i \in Invocations :
    /\ supplied[i] # None
    /\ supplied[i][1].location = Some("")
    /\ result[i] # None
    /\ result[i][1].action = "display"

\* C19: on a success the jobs are the provider's entries in the provider's
\* order, one for one, with title, company, location, description and URL
\* copied and source "adzuna", and count is the number of entries (0 for an
\* empty list).
C19_OneJobPerEntry ==
  \A i \in Invocations :
    (AttemptEnded(i) /\ LastOutcome(i).kind = "success") =>
      LET entries == LastOutcome(i).body[1].results[1] IN
        /\ result[i] # None
        /\ result[i][1].action = "display"
        /\ result[i][1].count = Len(entries)
        /\ Len(result[i][1].jobs) = Len(entries)
        /\ \A k \in DOMAIN entries :
             LET job == result[i][1].jobs[k] IN
               /\ job.title = entries[k].title
               /\ job.company = entries[k].company
               /\ job.location = entries[k].location
               /\ job.description = entries[k].description[1]
               /\ job.url = entries[k].redirect_url
               /\ job.source = "adzuna"

C19_Witness ==
  \E i \in Invocations :
    /\ AttemptEnded(i)
    /\ LastOutcome(i).kind = "success"
    /\ Len(result[i][1].jobs) = 2
    /\ result[i][1].jobs[1].title = "ML Engineer"
    /\ result[i][1].jobs[2].title = "AI Engineer"

\* C20: for every presence and value of salary_min and salary_max, 0
\* included: both present gives "$<min> - $<max>", only a minimum gives
\* "$<min>+", neither gives no salary field.
C20_SalaryMapping ==
  \A i \in Invocations :
    (AttemptEnded(i) /\ LastOutcome(i).kind = "success") =>
      LET entries == LastOutcome(i).body[1].results[1] IN
        \A k \in DOMAIN entries :
          LET min == entries[k].salary_min
              max == entries[k].salary_max
              salary == result[i][1].jobs[k].salary
          IN /\ (min # None /\ max # None) =>
                  salary = Some(<<"$", toLocaleString(min[1]), " - $",
                                  toLocaleString(max[1])>>)
             /\ (min # None /\ max = None) =>
                  salary = Some(<<"$", toLocaleString(min[1]), "+">>)
             /\ (min = None /\ max = None) => salary = None

\* C15: an invocation that was executed eventually ends, provided the armed
\* timeout timers and the backoff timers eventually fire, whatever the
\* provider does.
C15_EventuallyReturns ==
  \A i \in Sequential :
    (pc[i] \in {"fetching", "reading", "backoff"}) ~> (pc[i] \in {"done", "threw"})

\* Everything an invocation owns.
Local(i) ==
  <<pc[i], supplied[i], args[i], params[i], attempt[i], timers[i], aborted[i],
    sleep[i], lastError[i], inflight[i], result[i], rejection[i], requests[i],
    delays[i], outcomes[i]>>

\* The result of an invocation run alone with arguments a against the
\* attempt outcomes os: none while an attempt or a wait is pending.
Alone(i, a, os) ==
  IF os = <<>> THEN None
  ELSE LET n == Len(os)
           o == os[n]
       IN CASE o.kind = "status" ->
                 Some([action |-> "error", jobs |-> <<>>,
                       error |-> <<"Adzuna API returned error: ", ToString(o.status[1]),
                                   " ", StatusText(o.status[1])>>])
            [] o.kind = "success" ->
                 Some(DisplayResult(MapJobs(o.body[1].results[1], i), a.query, a.location))
            [] o.kind = "abort" ->
                 IF n < 3 THEN None
                 ELSE Some([action |-> "error", jobs |-> <<>>,
                            error |-> <<"Adzuna API request timed out after ", "3",
                                        " attempts">>])
            [] OTHER ->
                 IF o.error[1].nullish THEN None
                 ELSE IF HasRetryableCode(o.error[1])
                   THEN IF n < 3 THEN None
                        ELSE Some([action |-> "error", jobs |-> <<>>,
                                   error |-> <<"Network error connecting to Adzuna: ",
                                               OutcomeCode(o)>>])
                 ELSE Some([action |-> "error", jobs |-> <<>>,
                            error |-> IF o.error[1].isError THEN o.error[1].message
                                      ELSE <<"An unexpected error occurred while searching Adzuna">>])

\* C11: concurrent invocations are independent: every step (a timeout
\* firing included) changes what one invocation owns and nothing of the
\* others, a controller is aborted only by the timeout of its own attempt,
\* and each result is the one its own arguments and its own attempt outcomes
\* give when run alone.
C11_Independent ==
  /\ [](\A i \in Invocations :
          /\ requests[i] # <<>> =>
               (IF AttemptEnded(i) THEN result[i] = Alone(i, args[i], outcomes[i])
                ELSE result[i] = None)
          /\ \A t \in aborted[i] :
               t \in DOMAIN outcomes[i] /\ outcomes[i][t].kind = "abort"
          /\ attempt[i] = Len(requests[i]))
  /\ [][\E i \in Invocations :
          \A j \in Invocations \ {i} : Local(j)' = Local(j)]_vars
  /\ [][\A i \in Invocations :
          (timers[i] # {} /\ timers'[i] = {}) =>
            \A j \in Invocations \ {i} :
              inflight'[j] = inflight[j] /\ aborted'[j] = aborted[j]]_vars

C11_Witness ==
  /\ pc[1] = "backoff"
  /\ aborted[1] = {1}
  /\ pc[2] = "reading"
  /\ attempt[2] = 2
  /\ aborted[2] = {}

====
